---- MODULE Spec2Model ----
(***************************************************************************)
(* A model of unocss-preset-color: the color-key splitter (splitColors),   *)
(* the fallback-color CSS emitter (fallbackColor), the contrast rule       *)
(* patterns built by presetColor and the contrast resolver.                *)
(*                                                                         *)
(* Text is modelled as sequences of one-character strings, so that         *)
(* splitting, serialising and regular-expression rewriting are computed    *)
(* and not assumed.  A JavaScript object is a sequence of entries          *)
(* [k |-> key, v |-> value] in insertion order.                            *)
(***************************************************************************)
EXTENDS Integers, Sequences, FiniteSets, TLC

VARIABLES
    pc,          \* position of the run: which call has been made
    options,     \* options.colors as the caller supplied it
    colors,      \* the object splitColors works on (mutated in place)
    css,         \* the CSS property object handed to fallbackColor (mutated in place)
    candidates,  \* the array of candidate colors handed to fallbackColor (mutated in place)
    calls,       \* the calls of fallbackColor made so far: arguments as passed, text returned
    name,        \* the utility name the host is generating CSS for
    theme,       \* the host's theme: color token -> color, as its colorResolver sees it
    defaultDelta, \* options.contrast.defaultDelta, as presetColor resolved it
    match,       \* the RegExpMatchArray of the rule that matched (mutated by the resolver)
    lookups,     \* the tokens the resolver asked the host's colorResolver for
    out          \* what the resolver returned

vars == <<pc, options, colors, css, candidates, calls,
          name, theme, defaultDelta, match, lookups, out>>
splitVars == <<options, colors>>
fallbackVars == <<css, candidates, calls>>
contrastVars == <<name, theme, defaultDelta, match, lookups, out>>

SplitIdle == options = <<>> /\ colors = <<>>
FallbackIdle == css = <<>> /\ candidates = <<>> /\ calls = <<>>
ContrastIdle ==
    /\ name = <<>> /\ theme = <<>> /\ defaultDelta = 0
    /\ match = <<>> /\ lookups = <<>> /\ out = <<>>

(***************************************************************************)
(* Bounds of the model.                                                    *)
(***************************************************************************)
MaxSegs == 3
MaxSize == 5
MaxNestedSize == 6
MaxProps == 3
MaxCands == 3
MaxCalls == 2

(***************************************************************************)
(* Values of a Colors object: a color string, a nested Colors object, or   *)
(* undefined (what reading a missing key gives).                           *)
(***************************************************************************)
Str(s) == [t |-> "string", s |-> s, m |-> <<>>]
Obj(m) == [t |-> "object", s |-> "", m |-> m]
Undefined == [t |-> "undefined", s |-> "", m |-> <<>>]
typeof(v) == v.t

HYPHEN == "-"
DEFAULT == <<"D", "E", "F", "A", "U", "L", "T">>

\* Object.hasOwn(o, k)
hasOwn(o, k) == \E i \in 1..Len(o) : o[i].k = k
IndexOf(o, k) == CHOOSE i \in 1..Len(o) : o[i].k = k
\* o[k]
Get(o, k) == IF hasOwn(o, k) THEN o[IndexOf(o, k)].v ELSE Undefined
\* o[k] = v : an existing key keeps its place, a new key goes last
Set(o, k, v) ==
    IF hasOwn(o, k)
    THEN [o EXCEPT ![IndexOf(o, k)] = [k |-> k, v |-> v]]
    ELSE Append(o, [k |-> k, v |-> v])
\* delete o[k]
Delete(o, k) ==
    IF hasOwn(o, k)
    THEN SubSeq(o, 1, IndexOf(o, k) - 1) \o SubSeq(o, IndexOf(o, k) + 1, Len(o))
    ELSE o
\* the keys a for-in loop is about to visit: the own keys in insertion order
OwnKeys(o) == [i \in 1..Len(o) |-> o[i].k]

RECURSIVE ObjectAssign(_, _, _)
\* Object.assign(target, source): source's entries from the i-th on
ObjectAssign(target, source, i) ==
    IF i > Len(source) THEN target
    ELSE ObjectAssign(Set(target, source[i].k, source[i].v), source, i + 1)

\* key.includes('-')
includes(key, ch) == \E i \in 1..Len(key) : key[i] = ch

RECURSIVE SplitFrom(_, _, _, _)
SplitFrom(key, ch, i, cur) ==
    IF i > Len(key) THEN <<cur>>
    ELSE IF key[i] = ch THEN <<cur>> \o SplitFrom(key, ch, i + 1, <<>>)
    ELSE SplitFrom(key, ch, i + 1, Append(cur, key[i]))
\* key.split('-')
split(key, ch) == SplitFrom(key, ch, 1, <<>>)

RECURSIVE WalkVariants(_, _, _)

\* the inner loop with a promotion that forgets the string: preColor[v] = {}
WalkVariantsDropDefault(preColor, variants, value) ==
    LET v == Head(variants) IN
    IF Len(variants) > 1
    THEN LET pre1 == IF typeof(Get(preColor, v)) \in {"undefined", "string"}
                     THEN Set(preColor, v, Obj(<<>>))
                     ELSE preColor
         IN Set(pre1, v, Obj(WalkVariants(Get(pre1, v).m, Tail(variants), value)))
    ELSE IF typeof(Get(preColor, v)) \in {"undefined", "string"}
         THEN Set(preColor, v, value)
         ELSE IF typeof(value) = "string"
         THEN Set(preColor, v, Obj(Set(Get(preColor, v).m, DEFAULT, value)))
         ELSE IF typeof(value) = "object"
         THEN Set(preColor, v, Obj(ObjectAssign(Get(preColor, v).m, value.m, 1)))
         ELSE preColor

\* the inner loop with a last step that always assigns: preColor[v] = colors[key]
WalkVariantsOverwrite(preColor, variants, value) ==
    LET v == Head(variants) IN
    IF Len(variants) > 1
    THEN LET pre1 == IF typeof(Get(preColor, v)) = "undefined"
                     THEN Set(preColor, v, Obj(<<>>))
                     ELSE IF typeof(Get(preColor, v)) = "string"
                     THEN Set(preColor, v, Obj(<<[k |-> DEFAULT, v |-> Get(preColor, v)]>>))
                     ELSE preColor
         IN Set(pre1, v, Obj(WalkVariants(Get(pre1, v).m, Tail(variants), value)))
    ELSE Set(preColor, v, value)

(* The inner loop of splitColors over variants.entries(), from the object  *)
(* preColor refers to: every segment but the last steps into (creating or  *)
(* promoting) a nested object, the last one stores value.  The result is   *)
(* preColor's object after the loop.                                       *)
WalkVariants(preColor, variants, value) ==
    LET v == Head(variants) IN
    IF Len(variants) > 1
    THEN LET pre1 == IF typeof(Get(preColor, v)) = "undefined"
                     THEN Set(preColor, v, Obj(<<>>))
                     ELSE IF typeof(Get(preColor, v)) = "string"
                     THEN Set(preColor, v, Obj(<<[k |-> DEFAULT, v |-> Get(preColor, v)]>>))
                     ELSE preColor
         IN Set(pre1, v, Obj(WalkVariants(Get(pre1, v).m, Tail(variants), value)))
    ELSE IF typeof(Get(preColor, v)) \in {"undefined", "string"}
         THEN Set(preColor, v, value)
         ELSE IF typeof(value) = "string"
         THEN Set(preColor, v, Obj(Set(Get(preColor, v).m, DEFAULT, value)))
         ELSE IF typeof(value) = "object"
         THEN Set(preColor, v, Obj(ObjectAssign(Get(preColor, v).m, value.m, 1)))
         ELSE preColor

RECURSIVE splitColors(_)
RECURSIVE SplitLoop(_, _, _)
(* splitColors' for-in loop: keys are the own keys when the loop starts,   *)
(* in insertion order; a key deleted before its turn is skipped and a key  *)
(* added during the loop is not visited.                                   *)
SplitLoop(obj, keys, i) ==
    IF i > Len(keys) THEN obj
    ELSE LET key == keys[i] IN
         IF ~hasOwn(obj, key) THEN SplitLoop(obj, keys, i + 1)
         ELSE IF includes(key, HYPHEN)
         THEN SplitLoop(Delete(WalkVariants(obj, split(key, HYPHEN), Get(obj, key)), key),
                        keys, i + 1)
         ELSE IF typeof(Get(obj, key)) = "object"
         THEN SplitLoop(Set(obj, key, Obj(splitColors(Get(obj, key).m))), keys, i + 1)
         ELSE SplitLoop(obj, keys, i + 1)

splitColors(obj) == SplitLoop(obj, OwnKeys(obj), 1)

(***************************************************************************)
(* The color mappings handed to presetColor.  Keys are hyphen-joined       *)
(* segments; the size of a mapping is the number of key segments in it,    *)
(* a nested mapping counting one more than its own size.                   *)
(***************************************************************************)
SegNames == {<<"p">>, <<"c">>, DEFAULT}
Strs == {"red", "blue"}

RECURSIVE KeysOfSegs(_)
KeysOfSegs(n) ==
    IF n = 1 THEN SegNames
    ELSE {s \o <<HYPHEN>> \o k : s \in SegNames, k \in KeysOfSegs(n - 1)}
KeysBySegs == [n \in 1..MaxSegs |-> KeysOfSegs(n)]
Keys == UNION {KeysBySegs[n] : n \in 1..MaxSegs}

RECURSIVE Size(_)
Cost(e) == Len(split(e.k, HYPHEN))
           + (IF typeof(e.v) = "object" THEN 1 + Size(e.v.m) ELSE 0)
Size(m) == IF m = <<>> THEN 0 ELSE Cost(Head(m)) + Size(Tail(m))

\* the keys that still fit a mapping of size at most max
KeysThatFit(m, max) ==
    LET room == max - Size(m) IN
    UNION {KeysBySegs[n] : n \in 1..(IF room < MaxSegs THEN room ELSE MaxSegs)}

IsFlat(m) == \A i \in 1..Len(m) : typeof(m[i].v) = "string"

(***************************************************************************)
(* The caller writes its options.colors object, one entry after another,   *)
(* and then calls presetColor, which runs                                  *)
(*     colors = splitColors(options.colors)                                *)
(***************************************************************************)
SplitInit ==
    /\ pc = "config"
    /\ options = <<>>
    /\ colors = <<>>
    /\ FallbackIdle
    /\ ContrastIdle

\* options.colors[key] = c
PutColor(key, c) ==
    /\ pc = "config"
    /\ ~hasOwn(options, key)
    /\ options' = Append(options, [k |-> key, v |-> Str(c)])
    /\ UNCHANGED <<pc, colors, fallbackVars, contrastVars>>

\* options.colors[key] = {}
PutObject(key) ==
    /\ pc = "config"
    /\ ~hasOwn(options, key)
    /\ options' = Append(options, [k |-> key, v |-> Obj(<<>>)])
    /\ UNCHANGED <<pc, colors, fallbackVars, contrastVars>>

\* options.colors[parent][key] = c, parent being the entry written last
PutNestedColor(key, c) ==
    /\ pc = "config"
    /\ options # <<>>
    /\ LET last == options[Len(options)] IN
        /\ typeof(last.v) = "object"
        /\ ~hasOwn(last.v.m, key)
        /\ options' = [options EXCEPT ![Len(options)] =
                          [k |-> last.k,
                           v |-> Obj(Append(last.v.m, [k |-> key, v |-> Str(c)]))]]
    /\ UNCHANGED <<pc, colors, fallbackVars, contrastVars>>

PresetColorSplit ==
    /\ pc = "config"
    /\ colors' = splitColors(options)
    /\ pc' = "split"
    /\ UNCHANGED <<options, fallbackVars, contrastVars>>

\* the flat color mappings: every value a string
SplitFlatNext ==
    \/ \E key \in KeysThatFit(options, MaxSize), c \in Strs : PutColor(key, c)
    \/ PresetColorSplit

SpecSplitFlat == SplitInit /\ [][SplitFlatNext]_vars

\* nested mappings too
SplitNext ==
    \/ \E key \in KeysThatFit(options, MaxNestedSize), c \in Strs : PutColor(key, c)
    \/ \E key \in KeysThatFit(options, MaxNestedSize - 1) : PutObject(key)
    \/ \E key \in KeysThatFit(options, MaxNestedSize), c \in Strs : PutNestedColor(key, c)
    \/ PresetColorSplit

SpecSplit == SplitInit /\ [][SplitNext]_vars

(***************************************************************************)
(* fallbackColor.  A CSS property object maps property names (text) to     *)
(* text or undefined.                                                      *)
(***************************************************************************)
CssStr(s) == [t |-> "string", s |-> s]
CssUndefined == [t |-> "undefined", s |-> <<>>]
CssGet(o, k) == IF hasOwn(o, k) THEN o[IndexOf(o, k)].v ELSE CssUndefined
\* !!value
Truthy(v) == v.t = "string" /\ v.s # <<>>

COLOR == <<"c", "o", "l", "o", "r">>
COLOR_DECL == <<"c", "o", "l", "o", "r", ":">>
FALLBACK == <<"c", "o", "l", "o", "r", "$", "f", "a", "l", "l", "b", "a", "c", "k">>
TEST_OPEN == <<".", "t", "e", "s", "t", "{">>
Digits == {"0", "1", "2", "3", "4", "5", "6", "7", "8", "9"}
DigitOf(d) == CASE d = 0 -> "0" [] d = 1 -> "1" [] d = 2 -> "2" [] d = 3 -> "3"
                [] d = 4 -> "4" [] d = 5 -> "5" [] d = 6 -> "6" [] d = 7 -> "7"
                [] d = 8 -> "8" [] d = 9 -> "9"

RECURSIVE NumberToString(_)
\* `${n}` for a non-negative integer n
NumberToString(n) ==
    IF n < 10 THEN <<DigitOf(n)>> ELSE Append(NumberToString(n \div 10), DigitOf(n % 10))

RECURSIVE Reverse(_)
\* Array.prototype.reverse
Reverse(a) == IF a = <<>> THEN <<>> ELSE Append(Reverse(Tail(a)), Head(a))

RECURSIVE SetFallbacks(_, _, _)
\* colors.forEach((color, i) => { css[`color$fallback${i}`] = color }), from index i
SetFallbacks(obj, arr, i) ==
    IF i >= Len(arr) THEN obj
    ELSE SetFallbacks(Set(obj, FALLBACK \o NumberToString(i), CssStr(arr[i + 1])), arr, i + 1)

RECURSIVE JoinEntries(_)
JoinEntries(obj) ==
    IF obj = <<>> THEN <<>>
    ELSE (IF Truthy(Head(obj).v)
          THEN Head(obj).k \o <<":">> \o Head(obj).v.s \o <<";">>
          ELSE <<>>) \o JoinEntries(Tail(obj))
\* ctx.constructCSS, as the repository's test supplies it
constructCSS(obj) == TEST_OPEN \o JoinEntries(obj) \o <<"}">>

StartsWithAt(text, i, prefix) ==
    /\ i + Len(prefix) - 1 <= Len(text)
    /\ SubSeq(text, i, i + Len(prefix) - 1) = prefix

RECURSIVE DigitsEnd(_, _)
\* the index after the run of digits of text that starts at i
DigitsEnd(text, i) ==
    IF i <= Len(text) /\ text[i] \in Digits THEN DigitsEnd(text, i + 1) ELSE i

\* the index after a match of /color\$fallback\d+:/ at i, 0 when there is none
FallbackMatchEnd(text, i) ==
    IF ~StartsWithAt(text, i, FALLBACK) THEN 0
    ELSE LET d == i + Len(FALLBACK)
             e == DigitsEnd(text, d)
         IN IF e > d /\ e <= Len(text) /\ text[e] = ":" THEN e + 1 ELSE 0

Min(S) == CHOOSE x \in S : \A y \in S : x <= y

RECURSIVE ReplaceAllFallback(_, _)
\* text.replaceAll(/color\$fallback\d+:/g, 'color:'), from index i
ReplaceAllFallback(text, i) ==
    LET starts == {j \in i..Len(text) : FallbackMatchEnd(text, j) # 0} IN
    IF starts = {} THEN SubSeq(text, i, Len(text))
    ELSE SubSeq(text, i, Min(starts) - 1) \o COLOR_DECL
         \o ReplaceAllFallback(text, FallbackMatchEnd(text, Min(starts)))

\* fallbackColor without the reversal of the candidates
fallbackColorNoReverse(obj, arr) ==
    LET css1 == IF Truthy(CssGet(obj, COLOR)) THEN Set(obj, COLOR, CssUndefined) ELSE obj
        css2 == SetFallbacks(css1, arr, 0)
    IN [css |-> css2, colors |-> arr,
        text |-> ReplaceAllFallback(constructCSS(css2), 1)]

(* fallbackColor(css, colors, ctx): the objects css and colors as the call *)
(* leaves them, and the text it returns.                                   *)
fallbackColor(obj, arr) ==
    LET css1 == IF Truthy(CssGet(obj, COLOR)) THEN Set(obj, COLOR, CssUndefined) ELSE obj
        reversed == Reverse(arr)
        css2 == SetFallbacks(css1, reversed, 0)
    IN [css |-> css2, colors |-> reversed,
        text |-> ReplaceAllFallback(constructCSS(css2), 1)]

PropNames == {COLOR,
              <<"b", "a", "c", "k", "g", "r", "o", "u", "n", "d", "C", "o", "l", "o", "r">>,
              <<"m", "a", "r", "g", "i", "n">>}
CssColors == {<<"r", "e", "d">>, <<"b", "l", "u", "e">>}
PropValues == {CssStr(c) : c \in CssColors} \cup {CssUndefined}

FallbackInit ==
    /\ pc = "config"
    /\ css = <<>>
    /\ candidates = <<>>
    /\ calls = <<>>
    /\ SplitIdle
    /\ ContrastIdle

\* the caller writes css[prop] = value
PutProp(prop, value) ==
    /\ pc = "config"
    /\ calls = <<>>
    /\ Len(css) < MaxProps
    /\ ~hasOwn(css, prop)
    /\ css' = Append(css, [k |-> prop, v |-> value])
    /\ UNCHANGED <<pc, candidates, calls, splitVars, contrastVars>>

\* the caller pushes a candidate color
PushCandidate(c) ==
    /\ pc = "config"
    /\ calls = <<>>
    /\ Len(candidates) < MaxCands
    /\ candidates' = Append(candidates, c)
    /\ UNCHANGED <<pc, css, calls, splitVars, contrastVars>>

\* fallbackColor(css, candidates, ctx), with the objects as the last call left them
CallFallbackColor ==
    /\ pc = "config"
    /\ Len(calls) < MaxCalls
    /\ LET r == fallbackColor(css, candidates) IN
        /\ css' = r.css
        /\ candidates' = r.colors
        /\ calls' = Append(calls, [css |-> css, colors |-> candidates, text |-> r.text])
    /\ UNCHANGED <<pc, splitVars, contrastVars>>

FallbackNext ==
    \/ \E prop \in PropNames, value \in PropValues : PutProp(prop, value)
    \/ \E c \in CssColors : PushCandidate(c)
    \/ CallFallbackColor

SpecFallback == FallbackInit /\ [][FallbackNext]_vars

(***************************************************************************)
(* The contrast rules of presetColor and their resolver.                   *)
(***************************************************************************)
\* defaultContrastOptions.suffix
suffix == <<"f", "o", "r", "e", "g", "r", "o", "u", "n", "d">>
CONTRAST_VAR == <<"-", "-", "c", "o", "n", "t", "r", "a", "s", "t", "-", "d", "a", "r", "k">>
UNDEFINED_TEXT == <<"u", "n", "d", "e", "f", "i", "n", "e", "d">>

\* `${v}` for a string or undefined
TemplateOf(v) == IF v.t = "undefined" THEN UNDEFINED_TEXT ELSE v.s

(* (?:-(?<sign>\+|-)?(?<delta>\d+))?$ on the rest of the name: the groups  *)
(* sign and delta, or no match.                                            *)
TailMatches(tail) ==
    \/ tail = <<>>
    \/ /\ Len(tail) >= 2
       /\ tail[1] = "-"
       /\ LET d == IF tail[2] \in {"+", "-"} THEN 3 ELSE 2 IN
           /\ d <= Len(tail)
           /\ \A i \in d..Len(tail) : tail[i] \in Digits
TailGroups(tail) ==
    IF tail = <<>>
    THEN <<[k |-> "sign", v |-> CssUndefined], [k |-> "delta", v |-> CssUndefined]>>
    ELSE IF tail[2] \in {"+", "-"}
    THEN <<[k |-> "sign", v |-> CssStr(<<tail[2]>>)],
           [k |-> "delta", v |-> CssStr(SubSeq(tail, 3, Len(tail)))]>>
    ELSE <<[k |-> "sign", v |-> CssUndefined],
           [k |-> "delta", v |-> CssStr(SubSeq(tail, 2, Len(tail)))]>>

(* The ways the head of a rule's pattern can match, in the order the       *)
(* regular expression tries them:                                          *)
(*   rule 1  ^text-(?:color-)?     rule 2  ^(?:color|c)-?                  *)
Leads(rule) ==
    IF rule = 1
    THEN <<<<"t", "e", "x", "t", "-", "c", "o", "l", "o", "r", "-">>, <<"t", "e", "x", "t", "-">>>>
    ELSE <<<<"c", "o", "l", "o", "r", "-">>, COLOR, <<"c", "-">>, <<"c">>>>

regBase == <<"-">> \o suffix

\* the ends e of a body (.+) = text[from..e] after which -<suffix> and the tail match
BodyEnds(text, from) ==
    {e \in from..Len(text) :
        /\ StartsWithAt(text, e + 1, regBase)
        /\ TailMatches(SubSeq(text, e + 1 + Len(regBase), Len(text)))}

Max(S) == CHOOSE x \in S : \A y \in S : y <= x

NoMatch == [m0 |-> <<>>, m1 |-> CssUndefined, groups |-> <<>>]

RECURSIVE ExecFrom(_, _, _)
\* text.match(rule's pattern), trying the rule's leads from the l-th on
ExecFrom(rule, text, l) ==
    IF l > Len(Leads(rule)) THEN NoMatch
    ELSE LET lead == Leads(rule)[l]
             ends == IF StartsWithAt(text, 1, lead) THEN BodyEnds(text, Len(lead) + 1) ELSE {}
         IN IF ends = {} THEN ExecFrom(rule, text, l + 1)
            ELSE LET e == Max(ends) IN
                 [m0 |-> text,
                  m1 |-> CssStr(SubSeq(text, Len(lead) + 1, e)),
                  groups |-> TailGroups(SubSeq(text, e + 1 + Len(regBase), Len(text)))]

\* the host tries the rules in registration order
RulesMatch(text) ==
    IF ExecFrom(1, text, 1) # NoMatch THEN ExecFrom(1, text, 1) ELSE ExecFrom(2, text, 1)

\* colorResolver('color', 'text', 'textColor')(match, ctx): {color: ...} or nothing
colorResolver(m, th) ==
    IF m.m1.t = "string" /\ m.m1.s \in DOMAIN th /\ Truthy(th[m.m1.s])
    THEN <<[k |-> COLOR, v |-> th[m.m1.s]]>>
    ELSE <<>>

CommentEnd(text, i) ==
    IF \E j \in (i + 2)..(Len(text) - 1) : text[j] = "*" /\ text[j + 1] = "/"
    THEN 2 + CHOOSE j \in (i + 2)..(Len(text) - 1) :
                 /\ text[j] = "*" /\ text[j + 1] = "/"
                 /\ \A h \in (i + 2)..(j - 1) : ~(text[h] = "*" /\ text[h + 1] = "/")
    ELSE 0

RECURSIVE RemoveComments(_, _)
\* color.replace(/\/\*.*?\*\//g, ''), from index i
RemoveComments(text, i) ==
    LET starts == {j \in i..Len(text) :
                      StartsWithAt(text, j, <<"/", "*">>) /\ CommentEnd(text, j) # 0} IN
    IF starts = {} THEN SubSeq(text, i, Len(text))
    ELSE SubSeq(text, i, Min(starts) - 1) \o RemoveComments(text, CommentEnd(text, Min(starts)))

OKLCH_FROM == <<"o", "k", "l", "c", "h", "(", "f", "r", "o", "m", " ">>
LCH_FROM == <<"l", "c", "h", "(", "f", "r", "o", "m", " ">>
CALC_VAR == <<" ", "c", "a", "l", "c", "(", "l", " ", "-", " ", "v", "a", "r", "(">>
TIMES == <<")", " ", "*", " ">>
CH_END == <<")", " ", "c", " ", "h", ")">>

(* contrastColor of contrast-color.ts: [oklch, lch], or nothing.  delta    *)
(* and sign are the texts interpolated into the templates.                 *)
contrastColor(obj, delta, sign) ==
    IF ~Truthy(CssGet(obj, COLOR)) THEN <<>>
    ELSE LET color == RemoveComments(CssGet(obj, COLOR).s, 1) IN
         << OKLCH_FROM \o color \o CALC_VAR \o CONTRAST_VAR \o TIMES
                \o sign \o <<".">> \o delta \o CH_END,
            LCH_FROM \o color \o CALC_VAR \o CONTRAST_VAR \o TIMES
                \o sign \o delta \o CH_END >>

(* contrastColor of index.ts: css with its color replaced by the oklch     *)
(* expression, or nothing.                                                 *)
contrastColorInline(obj, delta, sign) ==
    IF ~Truthy(CssGet(obj, COLOR)) THEN <<>>
    ELSE LET color == RemoveComments(CssGet(obj, COLOR).s, 1) IN
         Set(obj, COLOR, CssStr(OKLCH_FROM \o color \o CALC_VAR \o CONTRAST_VAR \o TIMES
                                    \o sign \o <<".">> \o delta \o CH_END))

\* match.groups?.delta ?? defaultDelta, as the template will print it
DeltaOf(m, dd) ==
    IF CssGet(m.groups, "delta").t = "string"
    THEN CssGet(m.groups, "delta").s
    ELSE NumberToString(dd)
\* match.groups?.sign, the parameter's default '' standing in for undefined
SignOf(m) ==
    IF CssGet(m.groups, "sign").t = "string" THEN CssGet(m.groups, "sign").s ELSE <<>>

Returned(by, kind, text, obj) == [by |-> by, kind |-> kind, text |-> text, css |-> obj]

\* the resolver without its first guard: the fallback lookup is made in any case
contrastColorResolverNoGuard(m, th, dd) ==
    LET bgColorCss == colorResolver(m, th)
        contrasts == contrastColor(bgColorCss, DeltaOf(m, dd), SignOf(m))
        fallback == TemplateOf(CssGet(m.groups, "bg")) \o <<"-">>
                    \o TemplateOf(CssGet(m.groups, "suffix"))
        m2 == [m EXCEPT !.m1 = CssStr(fallback)]
        fallbackCss == colorResolver(m2, th)
    IN IF bgColorCss = <<>> \/ contrasts = <<>>
       THEN [out |-> Returned("contrast-color.ts", "undefined", <<>>, <<>>),
             match |-> m2, lookups |-> <<m.m1, m2.m1>>]
       ELSE [out |-> Returned("contrast-color.ts", "text",
                          fallbackColor(bgColorCss, contrasts).text, <<>>),
             match |-> m2, lookups |-> <<m.m1, m2.m1>>]

(* The resolver contrastColorResolver(defaultDelta) of contrast-color.ts   *)
(* applied to match m: what it returns, match as it leaves it, and the     *)
(* tokens it asked colorResolver for.                                      *)
contrastColorResolver(m, th, dd) ==
    LET bgColorCss == colorResolver(m, th)
        contrasts == contrastColor(bgColorCss, DeltaOf(m, dd), SignOf(m))
        fallback == TemplateOf(CssGet(m.groups, "bg")) \o <<"-">>
                    \o TemplateOf(CssGet(m.groups, "suffix"))
        m2 == [m EXCEPT !.m1 = CssStr(fallback)]
        fallbackCss == colorResolver(m2, th)
        all == IF Truthy(CssGet(fallbackCss, COLOR))
               THEN Append(contrasts, CssGet(fallbackCss, COLOR).s)
               ELSE contrasts
    IN IF bgColorCss = <<>>
       THEN [out |-> Returned("contrast-color.ts", "undefined", <<>>, <<>>),
             match |-> m, lookups |-> <<m.m1>>]
       ELSE IF contrasts = <<>>
       THEN [out |-> Returned("contrast-color.ts", "undefined", <<>>, <<>>),
             match |-> m, lookups |-> <<m.m1>>]
       ELSE [out |-> Returned("contrast-color.ts", "text",
                          fallbackColor(bgColorCss, all).text, <<>>),
             match |-> m2, lookups |-> <<m.m1, m2.m1>>]

(* The resolver contrastColorResolver(defaultDelta) of index.ts, the one   *)
(* presetColor registers.                                                  *)
contrastColorResolverInline(m, th, dd) ==
    LET color == colorResolver(m, th)
        r == contrastColorInline(color, DeltaOf(m, dd), SignOf(m))
    IN IF color = <<>> \/ r = <<>>
       THEN [out |-> Returned("index.ts", "undefined", <<>>, <<>>),
             match |-> m, lookups |-> <<m.m1>>]
       ELSE [out |-> Returned("index.ts", "css", <<>>, r),
             match |-> m, lookups |-> <<m.m1>>]

(***************************************************************************)
(* The utility names and themes of the model.                              *)
(***************************************************************************)
Prefixes == {<<"t", "e", "x", "t", "-">>, <<"t", "e", "x", "t", "-", "c", "o", "l", "o", "r", "-">>, <<"c", "o", "l", "o", "r", "-">>, <<"c", "-">>, COLOR, <<"c">>, <<>>}
Bodies == {<<"x">>, <<"x", "-", "x">>, <<>>}
Middles == {regBase, suffix, <<"-", "f", "g">>}
Tails == {<<>>, <<"-", "5">>, <<"-", "+", "5">>, <<"-", "-", "5">>, <<"-", "6", "0">>,
          <<"-", "0", "7">>, <<"-", "1", "0", "0">>, <<"-", "1", "0", "1">>,
          <<"-">>, <<"-", "+">>, <<"-", "5", "x">>}
Names == {p \o b \o m \o t : p \in Prefixes, b \in Bodies, m \in Middles, t \in Tails}

TokenX == <<"x">>
TokenXSuffix == <<"x", "-">> \o suffix
TokenUndefined == UNDEFINED_TEXT \o <<"-">> \o UNDEFINED_TEXT
ThemeTokens == {TokenX, TokenXSuffix, TokenUndefined}
Themes ==
    {th \in [ThemeTokens ->
                {CssUndefined, CssStr(<<"r", "e", "d">>), CssStr(<<"r", "e", "d", "/", "*", " ", "r", "e", "d", " ", "*", "/">>), CssStr(<<"w", "h", "i", "t", "e">>)}] :
        /\ th[TokenX] \in {CssUndefined, CssStr(<<"r", "e", "d">>), CssStr(<<"r", "e", "d", "/", "*", " ", "r", "e", "d", " ", "*", "/">>)}
        /\ th[TokenXSuffix] \in {CssUndefined, CssStr(<<"w", "h", "i", "t", "e">>)}
        /\ th[TokenUndefined] \in {CssUndefined, CssStr(<<"w", "h", "i", "t", "e">>)}}
DefaultDeltas == {60, 5, 0, 100}

ContrastInit ==
    /\ pc = "config"
    /\ name \in Names
    /\ theme \in Themes
    /\ defaultDelta \in DefaultDeltas
    /\ match = NoMatch
    /\ lookups = <<>>
    /\ out = <<>>
    /\ SplitIdle
    /\ FallbackIdle

\* the host matches the utility name against the preset's rules
HostMatch ==
    /\ pc = "config"
    /\ match' = RulesMatch(name)
    /\ pc' = IF RulesMatch(name) = NoMatch THEN "unmatched" ELSE "matched"
    /\ UNCHANGED <<name, theme, defaultDelta, lookups, out, splitVars, fallbackVars>>

\* the host calls the resolver of contrast-color.ts with the match
Resolve ==
    /\ pc = "matched"
    /\ LET r == contrastColorResolver(match, theme, defaultDelta) IN
        /\ out' = r.out
        /\ match' = r.match
        /\ lookups' = r.lookups
    /\ pc' = "resolved"
    /\ UNCHANGED <<name, theme, defaultDelta, splitVars, fallbackVars>>

\* the host calls the resolver of index.ts with the match
ResolveInline ==
    /\ pc = "matched"
    /\ LET r == contrastColorResolverInline(match, theme, defaultDelta) IN
        /\ out' = r.out
        /\ match' = r.match
        /\ lookups' = r.lookups
    /\ pc' = "resolved"
    /\ UNCHANGED <<name, theme, defaultDelta, splitVars, fallbackVars>>

ContrastNext == HostMatch \/ Resolve \/ ResolveInline

SpecContrast == ContrastInit /\ [][ContrastNext]_vars

(***************************************************************************)
(* What the claims about the splitter speak of.                            *)
(***************************************************************************)
RECURSIVE Lookup(_, _)
\* result[seg1][seg2]...[segn], undefined when the path leaves the mapping
Lookup(v, segs) ==
    IF segs = <<>> THEN v
    ELSE IF typeof(v) = "object" THEN Lookup(Get(v.m, Head(segs)), Tail(segs))
    ELSE Undefined

RECURSIVE HasHyphenKey(_)
\* some key, at any depth of m, contains a hyphen
HasHyphenKey(m) ==
    \E i \in 1..Len(m) :
        \/ includes(m[i].k, HYPHEN)
        \/ typeof(m[i].v) = "object" /\ HasHyphenKey(m[i].v.m)

RECURSIVE Canon(_)
\* a mapping as a structure: the set of its entries, the order of keys forgotten
Canon(m) ==
    {<<m[i].k, IF typeof(m[i].v) = "object" THEN <<"object", Canon(m[i].v.m)>>
               ELSE <<"string", m[i].v.s>>>> : i \in 1..Len(m)}

\* key a is key b followed by further segments
Extends(a, b) == Len(a) > Len(b) /\ SubSeq(a, 1, Len(b) + 1) = b \o <<HYPHEN>>

RECURSIVE UsesDefault(_)
\* some key of m, at any depth, has a segment named DEFAULT
UsesDefault(m) ==
    \E i \in 1..Len(m) :
        \/ \E j \in 1..Len(split(m[i].k, HYPHEN)) : split(m[i].k, HYPHEN)[j] = DEFAULT
        \/ typeof(m[i].v) = "object" /\ UsesDefault(m[i].v.m)

\* the same entries inserted in another order
Reordered(m, f) == [i \in 1..Len(m) |-> m[f[i]]]

(* C4, as stated: following the segments of any key of a flat mapping from *)
(* the root of the split result yields that key's original value.          *)
C4_RoundTripExact ==
    pc = "split" =>
        \A i \in 1..Len(options) :
            Lookup(Obj(colors), split(options[i].k, HYPHEN)) = options[i].v

(* C4, amended: for a flat mapping none of whose keys has a segment named  *)
(* DEFAULT, following a key's segments yields its original value when no   *)
(* other key extends it, and otherwise a mapping whose DEFAULT entry is    *)
(* the original value.                                                     *)
C4_RoundTripDefault ==
    (pc = "split" /\ ~UsesDefault(options)) =>
        \A i \in 1..Len(options) :
            LET r == Lookup(Obj(colors), split(options[i].k, HYPHEN)) IN
            IF \E j \in 1..Len(options) : Extends(options[j].k, options[i].k)
            THEN typeof(r) = "object" /\ Get(r.m, DEFAULT) = options[i].v
            ELSE r = options[i].v

\* a split mapping in which one key extends another (string promoted)
C4_Witness ==
    /\ pc = "split"
    /\ ~UsesDefault(options)
    /\ \E i, j \in 1..Len(options) :
          /\ Extends(options[j].k, options[i].k)
          /\ typeof(Lookup(Obj(colors), split(options[i].k, HYPHEN))) = "object"
          /\ Lookup(Obj(colors), split(options[j].k, HYPHEN)) = options[j].v

(* C9, as stated: the split result of a flat mapping, as a structure, is   *)
(* the same for every insertion order of its keys.                         *)
C9_OrderIndependent ==
    pc = "split" =>
        \A f \in Permutations(1..Len(options)) :
            Canon(splitColors(Reordered(options, f))) = Canon(colors)

(* C9, amended: the split result of a flat mapping none of whose keys has  *)
(* a segment named DEFAULT is the same for every insertion order.          *)
C9_OrderIndependentNoDefault ==
    (pc = "split" /\ ~UsesDefault(options)) =>
        \A f \in Permutations(1..Len(options)) :
            Canon(splitColors(Reordered(options, f))) = Canon(colors)

\* a split mapping of three keys, one extending another
C9_Witness ==
    /\ pc = "split"
    /\ ~UsesDefault(options)
    /\ Len(options) = 3
    /\ \E i, j \in 1..3 : i < j /\ Extends(options[i].k, options[j].k)

\* value v holds color c: it is c, or a mapping whose DEFAULT is c
HoldsColor(v, c) == v = c \/ (typeof(v) = "object" /\ Get(v.m, DEFAULT) = c)

(* Mapping M of the input, found at node R of the result, is promoted:     *)
(* for every string key K of M and string key K-C of M (one more segment), *)
(* the node at K is a mapping with DEFAULT = M[K], holding M[K-C] at C,    *)
(* and R has no key K-C.                                                   *)
PromotedIn(M, R) ==
    \A i, j \in 1..Len(M) :
        (/\ typeof(M[i].v) = "string"
         /\ typeof(M[j].v) = "string"
         /\ Extends(M[j].k, M[i].k)
         /\ Len(split(M[j].k, HYPHEN)) = Len(split(M[i].k, HYPHEN)) + 1)
        => LET segs == split(M[j].k, HYPHEN)
               node == Lookup(R, split(M[i].k, HYPHEN))
           IN /\ typeof(node) = "object"
              /\ Get(node.m, DEFAULT) = M[i].v
              /\ HoldsColor(Get(node.m, segs[Len(segs)]), M[j].v)
              /\ typeof(R) = "object"
              /\ ~hasOwn(R.m, M[j].k)

(* C1: string-to-object promotion.  For every mapping of the input, at the *)
(* top level or nested inside a caller-supplied mapping, holding a string  *)
(* under P and a string under P-C, the split result has at P a mapping     *)
(* with DEFAULT = the value of P and C = the value of P-C, and no key P-C  *)
(* (stated for mappings that do not use the name DEFAULT in their keys).   *)
C1_Promotion ==
    (pc = "split" /\ ~UsesDefault(options)) =>
        /\ PromotedIn(options, Obj(colors))
        /\ \A i \in 1..Len(options) :
              typeof(options[i].v) = "object" =>
                  PromotedIn(options[i].v.m,
                             Lookup(Obj(colors), split(options[i].k, HYPHEN)))

(* C3: after splitColors returns, no key at any depth of the result        *)
(* contains a hyphen.                                                      *)
C3_NoHyphenKey == pc = "split" => ~HasHyphenKey(colors)

(***************************************************************************)
(* What the claims about fallbackColor speak of.                           *)
(***************************************************************************)
\* the first index >= i of ch in text, 0 when there is none
IndexOfChar(text, ch, i) ==
    IF \E j \in i..Len(text) : text[j] = ch
    THEN Min({j \in i..Len(text) : text[j] = ch})
    ELSE 0

RECURSIVE DeclsFrom(_, _)
\* the declarations name:value; of text from index i, as <<name, value>> pairs
DeclsFrom(text, i) ==
    IF i > Len(text) THEN <<>>
    ELSE LET semi == IndexOfChar(text, ";", i)
             colon == IndexOfChar(text, ":", i)
         IN IF semi = 0 \/ colon = 0 \/ colon > semi THEN <<<<"malformed">>>>
            ELSE <<<<SubSeq(text, i, colon - 1), SubSeq(text, colon + 1, semi - 1)>>>>
                 \o DeclsFrom(text, semi + 1)

\* the declarations within .test{...}
ParseDecls(text) ==
    IF /\ StartsWithAt(text, 1, TEST_OPEN)
       /\ text[Len(text)] = "}"
    THEN DeclsFrom(SubSeq(text, Len(TEST_OPEN) + 1, Len(text) - 1), 1)
    ELSE <<<<"malformed">>>>

\* a synthetic property name color$fallback<digits>
IsFallbackName(prop) ==
    /\ StartsWithAt(prop, 1, FALLBACK)
    /\ Len(prop) > Len(FALLBACK)
    /\ \A i \in (Len(FALLBACK) + 1)..Len(prop) : prop[i] \in Digits

RECURSIVE OtherDecls(_)
\* the properties of obj that have a value and are not color properties, in order
OtherDecls(obj) ==
    IF obj = <<>> THEN <<>>
    ELSE (IF /\ Head(obj).k # COLOR
             /\ ~IsFallbackName(Head(obj).k)
             /\ Head(obj).v.t = "string"
          THEN <<<<Head(obj).k, Head(obj).v.s>>>>
          ELSE <<>>) \o OtherDecls(Tail(obj))

\* one color declaration per candidate, last candidate first
ColorDecls(arr) == [i \in 1..Len(arr) |-> <<COLOR, arr[Len(arr) + 1 - i]>>]

(* C2: the text fallbackColor returns holds the non-color properties in    *)
(* their original order, followed by exactly one color declaration per     *)
(* candidate in the reverse of the candidates' input order; the object's   *)
(* own color is never emitted.                                             *)
C2_FallbackShape ==
    \A n \in 1..Len(calls) :
        ParseDecls(calls[n].text) = OtherDecls(calls[n].css) \o ColorDecls(calls[n].colors)

\* a call with a color, another property after it, and two different candidates
C2_Witness ==
    /\ Len(calls) >= 1
    /\ Truthy(CssGet(calls[1].css, COLOR))
    /\ Len(calls[1].css) >= 2
    /\ calls[1].css[1].k = COLOR
    /\ Truthy(calls[1].css[2].v)
    /\ Len(calls[1].colors) >= 2
    /\ calls[1].colors[1] # calls[1].colors[2]
    /\ CssGet(calls[1].css, COLOR).s # calls[1].colors[1]

(* C8: calling fallbackColor a second time with the same CSS property      *)
(* object and the same candidate array, as the first call left them,       *)
(* returns the same text as the first call.                                *)
C8_Idempotent == Len(calls) >= 2 => calls[2].text = calls[1].text

(***************************************************************************)
(* What the claims about the contrast rules and their resolver speak of.   *)
(***************************************************************************)
RECURSIVE NumberOf(_)
\* the integer a run of decimal digits writes
NumberOf(ds) ==
    IF ds = <<>> THEN 0
    ELSE 10 * NumberOf(SubSeq(ds, 1, Len(ds) - 1))
         + (CHOOSE d \in 0..9 : DigitOf(d) = ds[Len(ds)])

RECURSIVE PowerOfTen(_)
PowerOfTen(n) == IF n = 0 THEN 1 ELSE 10 * PowerOfTen(n - 1)

\* the values of the color declarations of an emitted text, in order
ColorValues(text) ==
    LET decls == ParseDecls(text) IN
    SelectSeq([i \in 1..Len(decls) |-> IF Len(decls[i]) = 2 /\ decls[i][1] = COLOR
                                       THEN decls[i][2] ELSE <<>>],
              LAMBDA v : v # <<>>)

IsLch(expr) == StartsWithAt(expr, 1, LCH_FROM)
IsOklch(expr) == StartsWithAt(expr, 1, OKLCH_FROM)

\* the background token captured from the name, and the token <bg>-<suffix>
BgOf(text) == RulesMatch(text).m1.s
NamedFallbackOf(text) == BgOf(text) \o <<"-">> \o suffix
Defines(th, token) == token \in DOMAIN th /\ Truthy(th[token])
BgResolves == RulesMatch(name) # NoMatch /\ colorResolver(RulesMatch(name), theme) # <<>>

(* C5: when colorResolver yields nothing for the matched background token, *)
(* the resolver returns undefined: no CSS is emitted, colorResolver is     *)
(* asked for the background token only, and match is left as it was.       *)
C5_UnresolvedReturnsNothing ==
    (pc = "resolved" /\ ~BgResolves) =>
        /\ out.kind = "undefined"
        /\ out.text = <<>>
        /\ out.css = <<>>
        /\ lookups = <<RulesMatch(name).m1>>
        /\ match = RulesMatch(name)

\* the resolver of contrast-color.ts has returned for an unresolved
\* background matched together with a sign and a delta
C5_Witness ==
    /\ pc = "resolved"
    /\ out.by = "contrast-color.ts"
    /\ ~BgResolves
    /\ CssGet(match.groups, "sign").t = "string"
    /\ CssGet(match.groups, "delta").t = "string"

(* C6: for a matched name whose background resolves, the output of the     *)
(* resolver has three color declarations (the theme's color for the token  *)
(* <bg>-<suffix>, the lch expression, the oklch expression) when the theme *)
(* defines that token, and exactly two (lch, oklch) when it does not.      *)
C6_NamedFallback ==
    (pc = "resolved" /\ out.by = "contrast-color.ts" /\ BgResolves) =>
        /\ out.kind = "text"
        /\ LET vs == ColorValues(out.text) IN
           IF Defines(theme, NamedFallbackOf(name))
           THEN /\ Len(vs) = 3
                /\ vs[1] = theme[NamedFallbackOf(name)].s
                /\ IsLch(vs[2])
                /\ IsOklch(vs[3])
           ELSE /\ Len(vs) = 2
                /\ IsLch(vs[1])
                /\ IsOklch(vs[2])

\* the prefixes of the utility-name surface
SurfacePrefixes == {<<"t", "e", "x", "t", "-">>,
                    <<"t", "e", "x", "t", "-", "c", "o", "l", "o", "r", "-">>,
                    <<"c", "o", "l", "o", "r", "-">>,
                    <<"c", "-">>}

\* -<sign><delta>: sign +, - or absent, delta an integer in 0..100
IsTrailing(tail) ==
    /\ Len(tail) >= 2
    /\ tail[1] = "-"
    /\ LET d == IF tail[2] \in {"+", "-"} THEN 3 ELSE 2 IN
        /\ d <= Len(tail)
        /\ \A i \in d..Len(tail) : tail[i] \in Digits
        /\ NumberOf(SubSeq(tail, d, Len(tail))) \in 0..100

\* the lengths of the trailing parts text can be read with: <prefix><bg>-<suffix><trailing>
SurfaceTrailings(text) ==
    {n \in 0..Len(text) :
        /\ n = 0 \/ IsTrailing(SubSeq(text, Len(text) - n + 1, Len(text)))
        /\ \E p \in SurfacePrefixes :
              /\ StartsWithAt(text, 1, p)
              /\ Len(text) - n - Len(regBase) > Len(p)
              /\ StartsWithAt(text, Len(text) - n - Len(regBase) + 1, regBase)}

IsSurfaceName(text) == SurfaceTrailings(text) # {}

\* the sign and the delta written in a trailing part
TrailingSign(tail) ==
    IF tail # <<>> /\ tail[2] \in {"+", "-"} THEN CssStr(<<tail[2]>>) ELSE CssUndefined
TrailingDelta(tail) ==
    IF tail = <<>> THEN CssUndefined
    ELSE IF tail[2] \in {"+", "-"} THEN CssStr(SubSeq(tail, 3, Len(tail)))
    ELSE CssStr(SubSeq(tail, 2, Len(tail)))

(* C7: a name is accepted by one of the two rule patterns exactly when it  *)
(* has the form text-<bg>-<suffix>, text-color-<bg>-<suffix>,              *)
(* color-<bg>-<suffix> or c-<bg>-<suffix> (bg non-empty), optionally       *)
(* followed by -<sign><delta> with delta in 0..100; the extracted sign and *)
(* delta are those of the trailing part.                                   *)
C7_Surface ==
    pc \in {"matched", "unmatched"} =>
        /\ (pc = "matched") <=> IsSurfaceName(name)
        /\ (pc = "matched" /\ IsSurfaceName(name)) =>
              \E n \in SurfaceTrailings(name) :
                  LET tail == SubSeq(name, Len(name) - n + 1, Len(name)) IN
                  /\ CssGet(match.groups, "sign") = TrailingSign(tail)
                  /\ CssGet(match.groups, "delta") = TrailingDelta(tail)

\* the lightness shift written in an expression: the text between "* " and ") c h)"
ShiftOf(expr) ==
    SubSeq(expr, IndexOfChar(expr, "*", 1) + 2, Len(expr) - Len(CH_END))

(* a written shift [sign][.]digits as a fraction: its sign, the integer    *)
(* its digits write, and the power of ten that divides it                  *)
Fraction(shift) ==
    LET signed == shift # <<>> /\ shift[1] \in {"+", "-"}
        rest == IF signed THEN Tail(shift) ELSE shift
        dotted == rest # <<>> /\ rest[1] = "."
        ds == IF dotted THEN Tail(rest) ELSE rest
    IN [sign |-> IF signed THEN shift[1] ELSE "",
        written |-> ds # <<>> /\ \A i \in 1..Len(ds) : ds[i] \in Digits,
        num |-> IF ds # <<>> /\ (\A i \in 1..Len(ds) : ds[i] \in Digits) THEN NumberOf(ds) ELSE 0,
        den |-> IF dotted THEN PowerOfTen(Len(ds)) ELSE 1]

(* C10: for every delta in 0..100 and every sign, the shift written in the *)
(* oklch expression equals the shift written in the lch expression divided *)
(* by 100.                                                                 *)
C10_LchEquivalent ==
    (pc = "resolved" /\ out.by = "contrast-color.ts" /\ out.kind = "text") =>
        LET vs == ColorValues(out.text)
            lch == Fraction(ShiftOf(CHOOSE v \in {vs[i] : i \in 1..Len(vs)} : IsLch(v)))
            oklch == Fraction(ShiftOf(CHOOSE v \in {vs[i] : i \in 1..Len(vs)} : IsOklch(v)))
        IN (lch.written /\ lch.num \in 0..100 /\ lch.den = 1) =>
              /\ oklch.written
              /\ oklch.sign = lch.sign
              /\ oklch.num * lch.den * 100 = lch.num * oklch.den

====
